---- MODULE Spec2Model ----
(***************************************************************************)
(* Model of the zero_laundry canister (src/zero_laundry/src/lib.rs).       *)
(*                                                                         *)
(* State: the persisted id counter, the user map, the laundry map, the     *)
(* replica clock, and the response of the call that was executed last.     *)
(* Every update call (add_user, add_laundry, pay_laundry, is_laundry_done) *)
(* is one atomic action: the replica runs one message at a time and        *)
(* ic_cdk::api::time() is constant during one message.                     *)
(*                                                                         *)
(* Timestamps are counted in units of 10^10 ns (10 s): every duration      *)
(* constant of the source (3_600_000_000_000, 60_000_000_000,              *)
(* 86_400_000_000_000, 14_400_000_000_000) is a multiple of that unit and  *)
(* TLC's integers are 32 bits wide.  A minute is 6 units, so the floor     *)
(* divisions of is_laundry_done keep non-zero remainders.                  *)
(*                                                                         *)
(* User.name and Laundry.created_at are written when the record is made    *)
(* and read by no handler; the records of the model leave them out.        *)
(*                                                                         *)
(* pay_laundry updates the laundry through get_mut: the model takes the    *)
(* writes made through that handle as writes to the stored record.         *)
(***************************************************************************)
EXTENDS Integers, Sequences, FiniteSets, TLC

\* ---------------------------------------------------------------- bounds
\* ids are issued while the counter is below MaxId
MaxId == 2
\* the clock does not advance beyond MaxTime
MaxTime == 1500
\* the heaviest load; the weights are BigWeight and half of it, so that a
\* starting balance pays an order once (express, BigWeight) or several times
BigWeight == 10000
\* a clock step that is not a whole number of minutes (2 h 0 min 10 s)
OddStep == 721
\* pay_laundry is followed while the user's active_orders is shorter than this
MaxActive == 2
\* u64 is modelled as an unsigned integer of WordBits bits: the starting
\* balance and every price of Weights fit, and products stay in TLC's range
WordBits == 20

\* ------------------------------------------------------ program constants
\* u64::MAX at the modelled width
U64_MAX == 2^WordBits - 1
INITIAL_BALANCE == 100000
REGULAR_RATE == 6
EXPRESS_RATE == 10
NANOS_PER_HOUR == 360
NANOS_PER_MINUTE == 6
REGULAR_TIME == 8640
EXPRESS_TIME == 1440

\* Option<u64>::None
None == -1

STATUS_WAITING == "waiting for payment"
STATUS_PROGRESS == "paid/on progress"
STATUS_DONE == "paid/done"

\* ------------------------------------------------------------ input sets
Ids == 0..(MaxId - 1)
WideWeights == {0, U64_MAX}
Builds == {"debug", "release"}
Weights == {BigWeight \div 2, BigWeight}
Packages == {"regular", "express", "overnight"}
TickSteps == {OddStep, EXPRESS_TIME}

VARIABLES ID_COUNTER, USER_STORAGE, LAUNDRY_STORAGE, time, response

vars == <<ID_COUNTER, USER_STORAGE, LAUNDRY_STORAGE, time, response>>

\* ------------------------------------------------------------ durable map
EmptyMap == [k \in {} |-> 0]

MapInsert(m, k, v) == [x \in (DOMAIN m) \cup {k} |-> IF x = k THEN v ELSE m[x]]

do_insert_user(storage, user) == MapInsert(storage, user.id, user)

do_insert_laundry(storage, laundry) == MapInsert(storage, laundry.id, laundry)

\* Vec::retain(|&x| x != id)
retain(list, id) == SelectSeq(list, LAMBDA x : x /= id)

\* Vec::contains
Contains(list, id) == \E i \in 1..Len(list) : list[i] = id

\* ---------------------------------------------------------------- response
\* what the caller of the last executed call got back, with the payload of
\* that call; branch names the arm of the handler that produced it
Resp(op, ret, branch, user_id, laundry_id, package, hours, minutes) ==
    [op |-> op, ret |-> ret, branch |-> branch, user_id |-> user_id,
     laundry_id |-> laundry_id, package |-> package,
     hours |-> hours, minutes |-> minutes]

NoResponse == Resp("none", "none", "none", None, None, "", 0, 0)

\* ------------------------------------------------------------- u64 `+`, `*`
\* An overflowing `+` or `*` panics where overflow checks are compiled in
\* (build "debug": the call traps and the canister state is as before the
\* call) and keeps the low bits where they are not (build "release").
overflows(v) == v > U64_MAX

wrapping(v) == v % (U64_MAX + 1)

\* the counter values at which the model lets an id be issued
CanIssue == ID_COUNTER < MaxId \/ ID_COUNTER = U64_MAX

Trapped(op) == Resp(op, "trap", "overflow", None, None, "", 0, 0)

\* -------------------------------------------------------------------- Init
Init ==
    /\ ID_COUNTER = 0
    /\ USER_STORAGE = EmptyMap
    /\ LAUNDRY_STORAGE = EmptyMap
    /\ time = 0
    /\ response = NoResponse

\* ---------------------------------------------------------------- add_user
\* Cell::set stores current_value + 1 and returns the value it replaces: the
\* id handed out is the counter before the call.
add_user ==
    /\ CanIssue
    /\ \E build \in Builds :
         LET id == ID_COUNTER
             user == [id |-> id, balance |-> INITIAL_BALANCE,
                      pending_orders |-> <<>>, active_orders |-> <<>>,
                      completed_orders |-> <<>>]
         IN IF overflows(ID_COUNTER + 1) /\ build = "debug"
            THEN /\ UNCHANGED <<ID_COUNTER, USER_STORAGE>>
                 /\ response' = Trapped("add_user")
            ELSE /\ ID_COUNTER' = wrapping(ID_COUNTER + 1)
                 /\ USER_STORAGE' = do_insert_user(USER_STORAGE, user)
                 /\ response' = Resp("add_user", "Ok", "created", id, None, "", 0, 0)
    /\ UNCHANGED <<LAUNDRY_STORAGE, time>>

\* ------------------------------------------------------------- add_laundry
\* the match on payload.package: ok = FALSE is the `_ => return Err` arm,
\* product is the mathematical value of the multiplication
price_m_accept_any(weight, package) ==
    IF package = "regular" THEN [ok |-> TRUE, product |-> weight * REGULAR_RATE]
    ELSE IF package = "express" THEN [ok |-> TRUE, product |-> weight * EXPRESS_RATE]
    ELSE [ok |-> TRUE, product |-> 0]

price(weight, package) ==
    IF package = "regular" THEN [ok |-> TRUE, product |-> weight * REGULAR_RATE]
    ELSE IF package = "express" THEN [ok |-> TRUE, product |-> weight * EXPRESS_RATE]
    ELSE [ok |-> FALSE, product |-> 0]

new_laundry(id, weight, user_id, package, amount_to_pay) ==
    [id |-> id, weight |-> weight, package |-> package,
     amount_to_pay |-> amount_to_pay, status |-> STATUS_WAITING,
     user_id |-> user_id,
     updated_at |-> None, finished_at |-> None]

\* the user record made for a payload.user_id that has no record
new_user_m_starting_balance(user_id, laundry_id) ==
    [id |-> user_id, balance |-> INITIAL_BALANCE,
     pending_orders |-> <<laundry_id>>, active_orders |-> <<>>,
     completed_orders |-> <<>>]

new_user(user_id, laundry_id) ==
    [id |-> user_id, balance |-> 0,
     pending_orders |-> <<laundry_id>>, active_orders |-> <<>>,
     completed_orders |-> <<>>]

\* the match on get_user(&payload.user_id) that ends add_laundry
add_laundry_user_m_no_create(storage, user_id, laundry_id) ==
    IF user_id \in DOMAIN storage
    THEN do_insert_user(storage,
            [storage[user_id] EXCEPT !.pending_orders = Append(@, laundry_id)])
    ELSE storage

add_laundry_user(storage, user_id, laundry_id) ==
    IF user_id \in DOMAIN storage
    THEN do_insert_user(storage,
            [storage[user_id] EXCEPT !.pending_orders = Append(@, laundry_id)])
    ELSE do_insert_user(storage, new_user(user_id, laundry_id))

add_laundry_payload(weights) ==
    /\ CanIssue
    /\ \E weight \in weights, user_id \in Ids \cup DOMAIN USER_STORAGE,
          package \in Packages, build \in Builds :
         LET id == ID_COUNTER
             p == price(weight, package)
         IN IF build = "debug" /\ (overflows(ID_COUNTER + 1) \/ overflows(p.product))
            THEN /\ UNCHANGED <<ID_COUNTER, USER_STORAGE, LAUNDRY_STORAGE>>
                 /\ response' = Trapped("add_laundry")
            ELSE /\ ID_COUNTER' = wrapping(ID_COUNTER + 1)
                 /\ IF ~p.ok
                    THEN /\ UNCHANGED <<USER_STORAGE, LAUNDRY_STORAGE>>
                         /\ response' = Resp("add_laundry", "InvalidInput",
                                 "invalid_package", user_id, id, package, 0, 0)
                    ELSE /\ LAUNDRY_STORAGE' = do_insert_laundry(LAUNDRY_STORAGE,
                                 new_laundry(id, weight, user_id, package,
                                             wrapping(p.product)))
                         /\ USER_STORAGE' = add_laundry_user(USER_STORAGE, user_id, id)
                         /\ response' = Resp("add_laundry", "Ok",
                                 IF user_id \in DOMAIN USER_STORAGE
                                 THEN "user_found" ELSE "user_created",
                                 user_id, id, package, 0, 0)
    /\ UNCHANGED time

add_laundry == add_laundry_payload(Weights)

\* add_laundry with the payload weights at the two ends of the u64 range
add_laundry_wide == add_laundry_payload(WideWeights)

\* ------------------------------------------------------------- pay_laundry
\* the two checks made before the user is updated, in the handler's order
pay_check_m_owner_first(user, laundry, user_id) ==
    IF user_id /= laundry.user_id THEN "InvalidInput"
    ELSE IF user.balance < laundry.amount_to_pay THEN "InsufficientBalance"
    ELSE "Ok"

pay_check_m_no_owner(user, laundry, user_id) ==
    IF user.balance < laundry.amount_to_pay THEN "InsufficientBalance"
    ELSE "Ok"

pay_check(user, laundry, user_id) ==
    IF user.balance < laundry.amount_to_pay THEN "InsufficientBalance"
    ELSE IF user_id /= laundry.user_id THEN "InvalidInput"
    ELSE "Ok"

\* "Update user's balance and orders"
pay_user_m_keep_pending(user, laundry, laundry_id) ==
    [user EXCEPT !.balance = @ - laundry.amount_to_pay,
                 !.active_orders = Append(@, laundry_id)]

pay_user(user, laundry, laundry_id) ==
    [user EXCEPT !.balance = @ - laundry.amount_to_pay,
                 !.pending_orders = retain(@, laundry_id),
                 !.active_orders = Append(@, laundry_id)]

\* the status test made on the stored laundry after the user was saved
already_paid_m_done_only(status) == status = STATUS_DONE

already_paid_m_progress_only(status) == status = STATUS_PROGRESS

already_paid(status) == status = STATUS_PROGRESS \/ status = STATUS_DONE

finish_time_m_swapped(package, current_timestamp) ==
    IF package = "regular" THEN EXPRESS_TIME + current_timestamp
    ELSE IF package = "express" THEN REGULAR_TIME + current_timestamp
    ELSE 0

finish_time(package, current_timestamp) ==
    IF package = "regular" THEN REGULAR_TIME + current_timestamp
    ELSE IF package = "express" THEN EXPRESS_TIME + current_timestamp
    ELSE 0

pay_order(laundry, now) ==
    [laundry EXCEPT !.status = STATUS_PROGRESS,
                    !.finished_at = finish_time(laundry.package, now),
                    !.updated_at = now]

pay_laundry ==
    /\ \E user_id \in Ids \cup DOMAIN USER_STORAGE,
          laundry_id \in Ids \cup DOMAIN LAUNDRY_STORAGE :
         LET R(ret, branch) ==
                 Resp("pay_laundry", ret, branch, user_id, laundry_id, "", 0, 0)
         IN IF user_id \notin DOMAIN USER_STORAGE
            THEN /\ UNCHANGED <<USER_STORAGE, LAUNDRY_STORAGE>>
                 /\ response' = R("NotFound", "user_not_found")
            ELSE IF laundry_id \notin DOMAIN LAUNDRY_STORAGE
            THEN /\ UNCHANGED <<USER_STORAGE, LAUNDRY_STORAGE>>
                 /\ response' = R("NotFound", "laundry_not_found")
            ELSE LET user == USER_STORAGE[user_id]
                     laundry == LAUNDRY_STORAGE[laundry_id]
                     check == pay_check(user, laundry, user_id)
                 IN IF check /= "Ok"
                    THEN /\ UNCHANGED <<USER_STORAGE, LAUNDRY_STORAGE>>
                         /\ response' = R(check, "check_failed")
                    ELSE /\ Len(user.active_orders) < MaxActive
                         /\ USER_STORAGE' = do_insert_user(USER_STORAGE,
                                               pay_user(user, laundry, laundry_id))
                         /\ IF already_paid(laundry.status)
                            THEN /\ UNCHANGED LAUNDRY_STORAGE
                                 /\ response' = R("AlreadyPaid", "already_paid")
                            ELSE /\ LAUNDRY_STORAGE' = do_insert_laundry(
                                        LAUNDRY_STORAGE, pay_order(laundry, time))
                                 /\ response' = R("Ok", "paid")
    /\ UNCHANGED <<ID_COUNTER, time>>

\* --------------------------------------------------------- is_laundry_done
already_done_m_never(status) == FALSE

already_done(status) == status = STATUS_DONE

\* `time() > finish`
deadline_passed_m_at_deadline(now, finish) == now >= finish

deadline_passed(now, finish) == now > finish

\* (hours, minutes) of the LaundryNotDone error
remaining_time_m_total_minutes(duration) ==
    <<duration \div NANOS_PER_HOUR, duration \div NANOS_PER_MINUTE>>

remaining_time(duration) ==
    LET hours == duration \div NANOS_PER_HOUR
        minutes == (duration - (hours * NANOS_PER_HOUR)) \div NANOS_PER_MINUTE
    IN <<hours, minutes>>

done_order(laundry, now) ==
    [laundry EXCEPT !.status = STATUS_DONE, !.updated_at = now]

done_user(user, laundry_id) ==
    [user EXCEPT !.completed_orders = Append(@, laundry_id),
                 !.active_orders = retain(@, laundry_id)]

is_laundry_done ==
    /\ \E id \in Ids \cup DOMAIN LAUNDRY_STORAGE :
         LET R(ret, branch, hm) ==
                 Resp("is_laundry_done", ret, branch, None, id, "", hm[1], hm[2])
         IN IF id \notin DOMAIN LAUNDRY_STORAGE
            THEN /\ UNCHANGED <<USER_STORAGE, LAUNDRY_STORAGE>>
                 /\ response' = R("NotFound", "laundry_not_found", <<0, 0>>)
            ELSE LET laundry == LAUNDRY_STORAGE[id]
                 IN IF already_done(laundry.status)
                    THEN /\ UNCHANGED <<USER_STORAGE, LAUNDRY_STORAGE>>
                         /\ response' = R("LaundryAlreadyDone", "already_done", <<0, 0>>)
                    ELSE IF laundry.finished_at = None
                    THEN /\ UNCHANGED <<USER_STORAGE, LAUNDRY_STORAGE>>
                         /\ response' = R("InvalidInput", "no_finish_time", <<0, 0>>)
                    ELSE IF deadline_passed(time, laundry.finished_at)
                    THEN /\ LAUNDRY_STORAGE' = do_insert_laundry(LAUNDRY_STORAGE,
                                                   done_order(laundry, time))
                         /\ IF laundry.user_id \in DOMAIN USER_STORAGE
                            THEN /\ USER_STORAGE' = do_insert_user(USER_STORAGE,
                                        done_user(USER_STORAGE[laundry.user_id], laundry.id))
                                 /\ response' = R("Ok", "done", <<0, 0>>)
                            ELSE /\ UNCHANGED USER_STORAGE
                                 /\ response' = R("NotFound", "user_not_found", <<0, 0>>)
                    ELSE /\ UNCHANGED <<USER_STORAGE, LAUNDRY_STORAGE>>
                         /\ response' = R("LaundryNotDone", "not_done",
                                          remaining_time(laundry.finished_at - time))
    /\ UNCHANGED <<ID_COUNTER, time>>

\* -------------------------------------------------------------------- clock
\* time passes between two calls; the previous response has been delivered
Tick ==
    /\ \E d \in TickSteps :
         /\ time + d <= MaxTime
         /\ time' = time + d
    /\ response' = NoResponse
    /\ UNCHANGED <<ID_COUNTER, USER_STORAGE, LAUNDRY_STORAGE>>

Next ==
    \/ add_user
    \/ add_laundry
    \/ pay_laundry
    \/ is_laundry_done
    \/ Tick

Spec == Init /\ [][Next]_vars

\* ------------------------------------------------- the counter at its maximum
\* add_laundry adds one to the counter before it refuses a package, so calls
\* with an unknown package bring the counter to any value with both stores
\* still empty.
InitExhaust ==
    /\ ID_COUNTER = U64_MAX
    /\ USER_STORAGE = EmptyMap
    /\ LAUNDRY_STORAGE = EmptyMap
    /\ time = 0
    /\ response = NoResponse

SpecExhaust == InitExhaust /\ [][Next]_vars

\* ------------------------------------------- weights at the ends of the range
NextWide ==
    \/ add_user
    \/ add_laundry_wide
    \/ pay_laundry
    \/ is_laundry_done
    \/ Tick

SpecWide == Init /\ [][NextWide]_vars

\* ------------------------------------------------------------------ claims
\* A step of the handler op: every handler sets response.op and Tick clears it.
Step(op) == response'.op = op

StoresUnchanged == USER_STORAGE' = USER_STORAGE /\ LAUNDRY_STORAGE' = LAUNDRY_STORAGE

\* C1: pay never partially applies: a pay_laundry call changes the user store
\* and the laundry store together or leaves both as they were, and a call that
\* returns an error leaves both unchanged.
C1_PayNeverPartial ==
    [][Step("pay_laundry") =>
          /\ (USER_STORAGE' = USER_STORAGE) <=> (LAUNDRY_STORAGE' = LAUNDRY_STORAGE)
          /\ response'.ret /= "Ok" => StoresUnchanged]_vars

\* a pay_laundry call made by the owner of an existing laundry
OwnerPays ==
    /\ Step("pay_laundry")
    /\ response'.user_id \in DOMAIN USER_STORAGE
    /\ response'.laundry_id \in DOMAIN LAUNDRY_STORAGE
    /\ LAUNDRY_STORAGE[response'.laundry_id].user_id = response'.user_id

\* C2 as stated: every pay_laundry call made by the owner on a laundry that
\* was paid before returns AlreadyPaid, whatever the balance.
C2_LaterPayAlwaysAlreadyPaid ==
    [][(OwnerPays /\ LAUNDRY_STORAGE[response'.laundry_id].status /= STATUS_WAITING)
          => response'.ret = "AlreadyPaid"]_vars

\* C2 amended: a pay_laundry call by the owner succeeds exactly when the
\* laundry waits for payment and the balance covers it; on a laundry paid
\* before it returns AlreadyPaid when the balance at the call covers the
\* amount and InsufficientBalance when it does not, and never succeeds.
C2_PayIdempotenceBoundary ==
    [][OwnerPays =>
          LET user == USER_STORAGE[response'.user_id]
              laundry == LAUNDRY_STORAGE[response'.laundry_id]
              covered == user.balance >= laundry.amount_to_pay
          IN /\ (laundry.status = STATUS_WAITING /\ covered) => response'.ret = "Ok"
             /\ (laundry.status /= STATUS_WAITING /\ covered)
                   => response'.ret = "AlreadyPaid"
             /\ ~covered => response'.ret = "InsufficientBalance"
             /\ response'.ret = "Ok" =>
                   /\ laundry.status = STATUS_WAITING
                   /\ LAUNDRY_STORAGE'[response'.laundry_id].status = STATUS_PROGRESS]_vars

\* a second pay_laundry by the owner was answered AlreadyPaid
C2_Witness ==
    /\ response.op = "pay_laundry"
    /\ response.ret = "AlreadyPaid"
    /\ LAUNDRY_STORAGE[response.laundry_id].user_id = response.user_id
    /\ LAUNDRY_STORAGE[response.laundry_id].status = STATUS_PROGRESS

\* C3: every laundry id is in at most one of the pending, active and completed
\* lists of its owner, and the list it is in is the one of its status.
C3_ListMembership ==
    \A id \in DOMAIN LAUNDRY_STORAGE :
       LET laundry == LAUNDRY_STORAGE[id]
       IN laundry.user_id \in DOMAIN USER_STORAGE =>
            LET user == USER_STORAGE[laundry.user_id]
                inP == Contains(user.pending_orders, id)
                inA == Contains(user.active_orders, id)
                inC == Contains(user.completed_orders, id)
            IN /\ ~(inP /\ inA) /\ ~(inP /\ inC) /\ ~(inA /\ inC)
               /\ inP => laundry.status = STATUS_WAITING
               /\ inA => laundry.status = STATUS_PROGRESS
               /\ inC => laundry.status = STATUS_DONE

\* C4: the user_id of every stored laundry is a key of the user store, and
\* is_laundry_done never answers from its "User not found" arm.
C4_ReferentialIntegrity ==
    /\ \A id \in DOMAIN LAUNDRY_STORAGE :
          LAUNDRY_STORAGE[id].user_id \in DOMAIN USER_STORAGE
    /\ ~(response.op = "is_laundry_done" /\ response.branch = "user_not_found")

\* is_laundry_done completed a laundry and found its owner
C4_Witness ==
    /\ response.op = "is_laundry_done"
    /\ response.branch = "done"
    /\ LAUNDRY_STORAGE[response.laundry_id].user_id \in DOMAIN USER_STORAGE

\* C5: a stored laundry stays stored, and its status changes only from waiting
\* to in progress in a pay_laundry call on it, and from in progress to done in
\* an is_laundry_done call on it.
C5_StatusMonotone ==
    [][\A id \in DOMAIN LAUNDRY_STORAGE :
          /\ id \in DOMAIN LAUNDRY_STORAGE'
          /\ LET before == LAUNDRY_STORAGE[id].status
                 after == LAUNDRY_STORAGE'[id].status
             IN \/ after = before
                \/ /\ before = STATUS_WAITING /\ after = STATUS_PROGRESS
                   /\ Step("pay_laundry") /\ response'.laundry_id = id
                \/ /\ before = STATUS_PROGRESS /\ after = STATUS_DONE
                   /\ Step("is_laundry_done") /\ response'.laundry_id = id]_vars

\* a laundry is done and a pay_laundry call on it has just been answered
C5_Witness ==
    /\ response.op = "pay_laundry"
    /\ response.laundry_id \in DOMAIN LAUNDRY_STORAGE
    /\ response.user_id = LAUNDRY_STORAGE[response.laundry_id].user_id
    /\ LAUNDRY_STORAGE[response.laundry_id].status = STATUS_DONE

\* C6: pay_laundry for an existing user and an existing laundry with
\* balance < amount_to_pay returns InsufficientBalance and changes no store.
C6_InsufficientBalance ==
    [][(/\ Step("pay_laundry")
        /\ response'.user_id \in DOMAIN USER_STORAGE
        /\ response'.laundry_id \in DOMAIN LAUNDRY_STORAGE
        /\ USER_STORAGE[response'.user_id].balance
              < LAUNDRY_STORAGE[response'.laundry_id].amount_to_pay)
          => (response'.ret = "InsufficientBalance" /\ StoresUnchanged)]_vars

\* a user who does not own the laundry and cannot afford it was refused
C6_Witness ==
    /\ response.op = "pay_laundry"
    /\ response.ret = "InsufficientBalance"
    /\ LAUNDRY_STORAGE[response.laundry_id].user_id /= response.user_id

\* C7: is_laundry_done on a paid laundry after its deadline returns it as done;
\* on a done laundry it returns LaundryAlreadyDone and changes no store; it
\* succeeds only on a laundry that was in progress, hence once.
C7_CompletionOnce ==
    [][(Step("is_laundry_done") /\ response'.laundry_id \in DOMAIN LAUNDRY_STORAGE) =>
          LET laundry == LAUNDRY_STORAGE[response'.laundry_id]
          IN /\ (laundry.status = STATUS_PROGRESS /\ time > laundry.finished_at) =>
                   /\ response'.ret = "Ok"
                   /\ LAUNDRY_STORAGE'[response'.laundry_id].status = STATUS_DONE
             /\ laundry.status = STATUS_DONE =>
                   (response'.ret = "LaundryAlreadyDone" /\ StoresUnchanged)
             /\ response'.ret = "Ok" => laundry.status = STATUS_PROGRESS]_vars

\* a laundry that is done was polled again
C7_Witness ==
    /\ response.op = "is_laundry_done"
    /\ response.ret = "LaundryAlreadyDone"
    /\ LAUNDRY_STORAGE[response.laundry_id].status = STATUS_DONE

\* C8: is_laundry_done on a paid laundry that is not done, at a time not after
\* its deadline, returns LaundryNotDone{hours, minutes} with
\* hours*HOUR + minutes*MINUTE <= finished_at - now < (hours+1)*HOUR and
\* minutes < 60, and changes no store.
C8_RemainingTime ==
    [][(/\ Step("is_laundry_done")
        /\ response'.laundry_id \in DOMAIN LAUNDRY_STORAGE
        /\ LAUNDRY_STORAGE[response'.laundry_id].status = STATUS_PROGRESS
        /\ time <= LAUNDRY_STORAGE[response'.laundry_id].finished_at) =>
          LET left == LAUNDRY_STORAGE[response'.laundry_id].finished_at - time
              hours == response'.hours
              minutes == response'.minutes
          IN /\ response'.ret = "LaundryNotDone"
             /\ hours * NANOS_PER_HOUR + minutes * NANOS_PER_MINUTE <= left
             /\ left < (hours + 1) * NANOS_PER_HOUR
             /\ minutes < 60
             /\ StoresUnchanged]_vars

\* a poll before the deadline with whole hours, whole minutes and a rest
C8_Witness ==
    /\ response.op = "is_laundry_done"
    /\ response.ret = "LaundryNotDone"
    /\ response.hours > 0
    /\ response.minutes > 0
    /\ LET left == LAUNDRY_STORAGE[response.laundry_id].finished_at - time
       IN response.hours * NANOS_PER_HOUR + response.minutes * NANOS_PER_MINUTE < left

\* C9: add_laundry with a package other than "regular" and "express" returns
\* InvalidInput and changes neither store.
C9_InvalidPackage ==
    [][(Step("add_laundry") /\ response'.package \notin {"regular", "express"})
          => (response'.ret = "InvalidInput" /\ StoresUnchanged)]_vars

\* an add_laundry call with another package was refused while a laundry is stored
C9_Witness ==
    /\ response.op = "add_laundry"
    /\ response.package = "overnight"
    /\ response.ret = "InvalidInput"
    /\ DOMAIN LAUNDRY_STORAGE /= {}

\* an add_laundry call with a valid package for a user_id that has no record
AddForMissingUser ==
    /\ Step("add_laundry")
    /\ response'.package \in {"regular", "express"}
    /\ response'.user_id \notin DOMAIN USER_STORAGE

\* C10 as stated: such a call fails with NotFound, keeps the laundry it made
\* and leaves the user store unchanged.
C10_MissingUserNotFound ==
    [][AddForMissingUser =>
          /\ response'.ret = "NotFound"
          /\ response'.laundry_id \in DOMAIN LAUNDRY_STORAGE'
          /\ USER_STORAGE' = USER_STORAGE]_vars

\* C10 amended: such a call succeeds, stores the laundry, and adds to the user
\* store one record under user_id, with balance 0 and the new laundry as its
\* only pending order; every other user record is unchanged.
C10_MissingUserCreated ==
    [][AddForMissingUser =>
          /\ response'.ret = "Ok"
          /\ response'.laundry_id \in DOMAIN LAUNDRY_STORAGE'
          /\ LAUNDRY_STORAGE'[response'.laundry_id].user_id = response'.user_id
          /\ DOMAIN USER_STORAGE' = DOMAIN USER_STORAGE \cup {response'.user_id}
          /\ USER_STORAGE'[response'.user_id] =
                [id |-> response'.user_id, balance |-> 0,
                 pending_orders |-> <<response'.laundry_id>>,
                 active_orders |-> <<>>, completed_orders |-> <<>>]
          /\ \A u \in DOMAIN USER_STORAGE : USER_STORAGE'[u] = USER_STORAGE[u]]_vars

\* add_laundry has just made the record of a user that did not exist
C10_Witness ==
    /\ response.op = "add_laundry"
    /\ response.branch = "user_created"
    /\ response.user_id \in DOMAIN USER_STORAGE
    /\ USER_STORAGE[response.user_id].pending_orders = <<response.laundry_id>>

\* C13: a successful pay_laundry takes exactly amount_to_pay from the payer's
\* balance, removes the id from pending_orders, appends it once to
\* active_orders, leaves completed_orders alone and changes no other user.
C13_PayEffectOnUser ==
    [][(Step("pay_laundry") /\ response'.ret = "Ok") =>
          LET uid == response'.user_id
              lid == response'.laundry_id
              before == USER_STORAGE[uid]
              after == USER_STORAGE'[uid]
          IN /\ after.balance = before.balance - LAUNDRY_STORAGE[lid].amount_to_pay
             /\ after.pending_orders =
                   SelectSeq(before.pending_orders, LAMBDA x : x /= lid)
             /\ ~Contains(before.active_orders, lid)
             /\ after.active_orders = before.active_orders \o <<lid>>
             /\ after.completed_orders = before.completed_orders
             /\ after.id = before.id
             /\ DOMAIN USER_STORAGE' = DOMAIN USER_STORAGE
             /\ \A u \in DOMAIN USER_STORAGE \ {uid} :
                   USER_STORAGE'[u] = USER_STORAGE[u]]_vars

\* a pay_laundry call has just succeeded and moved the id out of pending_orders
C13_Witness ==
    /\ response.op = "pay_laundry"
    /\ response.ret = "Ok"
    /\ USER_STORAGE[response.user_id].balance < INITIAL_BALANCE
    /\ USER_STORAGE[response.user_id].active_orders = <<response.laundry_id>>
    /\ USER_STORAGE[response.user_id].pending_orders = <<>>

FinishedIffPaid(storage) ==
    \A id \in DOMAIN storage :
       (storage[id].finished_at = None) <=> (storage[id].status = STATUS_WAITING)

\* C14: finished_at is unset exactly while the status is waiting for payment;
\* it is set only by the successful pay_laundry of that laundry, to the time of
\* the call plus 24 h (regular) or 4 h (express), and never changes afterwards.
C14_Deadline ==
    [][/\ FinishedIffPaid(LAUNDRY_STORAGE)
       /\ FinishedIffPaid(LAUNDRY_STORAGE')
       /\ \A id \in DOMAIN LAUNDRY_STORAGE :
             LAUNDRY_STORAGE'[id].finished_at /= LAUNDRY_STORAGE[id].finished_at =>
                /\ LAUNDRY_STORAGE[id].finished_at = None
                /\ Step("pay_laundry")
                /\ response'.ret = "Ok"
                /\ response'.laundry_id = id
                /\ LAUNDRY_STORAGE'[id].finished_at =
                      time + (IF LAUNDRY_STORAGE[id].package = "regular"
                              THEN REGULAR_TIME ELSE EXPRESS_TIME)]_vars

\* a regular laundry paid after the clock moved, and polled since
C14_Witness ==
    /\ response.op = "is_laundry_done"
    /\ response.laundry_id \in DOMAIN LAUNDRY_STORAGE
    /\ LAUNDRY_STORAGE[response.laundry_id].package = "regular"
    /\ LAUNDRY_STORAGE[response.laundry_id].updated_at > 0
    /\ LAUNDRY_STORAGE[response.laundry_id].finished_at =
          LAUNDRY_STORAGE[response.laundry_id].updated_at + REGULAR_TIME

\* a pay_laundry call by an existing user on an existing laundry of another user
StrangerPays ==
    /\ Step("pay_laundry")
    /\ response'.user_id \in DOMAIN USER_STORAGE
    /\ response'.laundry_id \in DOMAIN LAUNDRY_STORAGE
    /\ LAUNDRY_STORAGE[response'.laundry_id].user_id /= response'.user_id

\* C17: pay_laundry by a user who does not own the laundry never succeeds,
\* returns InvalidInput when that user's balance covers the amount, and changes
\* no store; a balance is only ever reduced by a pay_laundry of its own user on
\* a laundry that user owns.
C17_OwnershipCheck ==
    [][/\ StrangerPays =>
             /\ response'.ret /= "Ok"
             /\ (USER_STORAGE[response'.user_id].balance
                    >= LAUNDRY_STORAGE[response'.laundry_id].amount_to_pay)
                   => response'.ret = "InvalidInput"
             /\ StoresUnchanged
       /\ \A u \in DOMAIN USER_STORAGE :
             USER_STORAGE'[u].balance < USER_STORAGE[u].balance =>
                /\ Step("pay_laundry")
                /\ response'.user_id = u
                /\ LAUNDRY_STORAGE[response'.laundry_id].user_id = u]_vars

\* a user with enough balance was refused a laundry of another user
C17_Witness ==
    /\ response.op = "pay_laundry"
    /\ response.ret = "InvalidInput"
    /\ LAUNDRY_STORAGE[response.laundry_id].user_id /= response.user_id
    /\ USER_STORAGE[response.user_id].balance
          >= LAUNDRY_STORAGE[response.laundry_id].amount_to_pay

IsDone(storage, id) == id \in DOMAIN storage /\ storage[id].status = STATUS_DONE

\* C18: a laundry becomes done only in an is_laundry_done call on it made at a
\* time after its finished_at; a call at finished_at, a call on a laundry never
\* paid (InvalidInput), the clock and every other handler leave it as it was.
C18_DoneOnlyByLatePoll ==
    [][/\ \A id \in DOMAIN LAUNDRY_STORAGE' :
             IsDone(LAUNDRY_STORAGE', id) /= IsDone(LAUNDRY_STORAGE, id) =>
                /\ id \in DOMAIN LAUNDRY_STORAGE
                /\ IsDone(LAUNDRY_STORAGE', id)
                /\ Step("is_laundry_done")
                /\ response'.laundry_id = id
                /\ LAUNDRY_STORAGE[id].finished_at /= None
                /\ time > LAUNDRY_STORAGE[id].finished_at
       /\ (/\ Step("is_laundry_done")
           /\ response'.laundry_id \in DOMAIN LAUNDRY_STORAGE
           /\ LAUNDRY_STORAGE[response'.laundry_id].status = STATUS_WAITING)
             => (response'.ret = "InvalidInput" /\ StoresUnchanged)]_vars

\* a laundry was polled exactly at its finished_at and is not done
C18_Witness ==
    /\ response.op = "is_laundry_done"
    /\ response.laundry_id \in DOMAIN LAUNDRY_STORAGE
    /\ LAUNDRY_STORAGE[response.laundry_id].finished_at = time
    /\ LAUNDRY_STORAGE[response.laundry_id].status = STATUS_PROGRESS
    /\ response.ret = "LaundryNotDone"

RECURSIVE SumAmounts(_, _)
SumAmounts(storage, ids) ==
    IF ids = {} THEN 0
    ELSE LET id == CHOOSE x \in ids : TRUE
         IN storage[id].amount_to_pay + SumAmounts(storage, ids \ {id})

\* what the laundries of user u that are in progress or done cost together
PaidTotal(u) ==
    SumAmounts(LAUNDRY_STORAGE,
               {id \in DOMAIN LAUNDRY_STORAGE :
                   /\ LAUNDRY_STORAGE[id].user_id = u
                   /\ LAUNDRY_STORAGE[id].status /= STATUS_WAITING})

\* C19: every balance is the balance its record was made with (100000 by
\* add_user, 0 by add_laundry) less the amounts of the user's paid laundries.
C19_BalanceConservation ==
    \A u \in DOMAIN USER_STORAGE :
       \/ USER_STORAGE[u].balance = INITIAL_BALANCE - PaidTotal(u)
       \/ USER_STORAGE[u].balance = 0 - PaidTotal(u)

\* C20: add_user stores its record under an id that was no key of the user
\* store, and a stored user record changes only in an add_laundry for that
\* user, or a pay_laundry or is_laundry_done on a laundry that user owns.
C20_AddUserNeverOverwrites ==
    [][/\ Step("add_user") => response'.user_id \notin DOMAIN USER_STORAGE
       /\ \A u \in DOMAIN USER_STORAGE :
             USER_STORAGE'[u] /= USER_STORAGE[u] =>
                \/ Step("add_laundry") /\ response'.user_id = u
                \/ /\ Step("pay_laundry") \/ Step("is_laundry_done")
                   /\ response'.laundry_id \in DOMAIN LAUNDRY_STORAGE
                   /\ LAUNDRY_STORAGE[response'.laundry_id].user_id = u]_vars

\* a call that was given an id by the generator, and that id
Issues ==
    /\ Step("add_user") \/ Step("add_laundry")
    /\ response'.ret = "Ok"

IssuedId == IF Step("add_user") THEN response'.user_id ELSE response'.laundry_id

\* C11: the ids given out by add_user and add_laundry, in call order, strictly
\* increase: each is the counter before the call, the counter never decreases
\* and is greater after the call, and the id is that of no stored laundry.
C11_IdsStrictlyIncrease ==
    [][/\ ID_COUNTER' >= ID_COUNTER
       /\ Issues =>
             /\ IssuedId = ID_COUNTER
             /\ ID_COUNTER' > IssuedId
             /\ IssuedId \notin DOMAIN LAUNDRY_STORAGE]_vars

\* C12: with the counter at the maximum of its width, add_user and add_laundry
\* abort, issue no id and store nothing, and the counter does not go back to a
\* smaller value.
C12_ExhaustionAborts ==
    [][ID_COUNTER = U64_MAX =>
          /\ ID_COUNTER' = U64_MAX
          /\ (Step("add_user") \/ Step("add_laundry")) =>
                (response'.ret = "trap" /\ StoresUnchanged)]_vars

\* C15: the laundry stored by a successful add_laundry costs weight*6 (regular)
\* or weight*10 (express) as exact integers, and no later step changes the
\* amount_to_pay of a stored laundry.
C15_PricingExact ==
    [][/\ (Step("add_laundry") /\ response'.ret = "Ok") =>
             LET laundry == LAUNDRY_STORAGE'[response'.laundry_id]
             IN laundry.amount_to_pay =
                   laundry.weight * (IF laundry.package = "regular"
                                     THEN REGULAR_RATE ELSE EXPRESS_RATE)
       /\ \A id \in DOMAIN LAUNDRY_STORAGE :
             LAUNDRY_STORAGE'[id].amount_to_pay = LAUNDRY_STORAGE[id].amount_to_pay]_vars

\* every done laundry is in the completed_orders of its owner
DoneIsCompleted(users, laundries) ==
    \A id \in DOMAIN laundries :
       laundries[id].status = STATUS_DONE =>
          /\ laundries[id].user_id \in DOMAIN users
          /\ Contains(users[laundries[id].user_id].completed_orders, id)

\* C16: an is_laundry_done call either makes the laundry done and moves its id
\* from the owner's active_orders to the owner's completed_orders, or changes
\* neither store; and in no state is a done laundry missing from its owner's
\* completed_orders.
C16_PollNeverPartial ==
    [][/\ Step("is_laundry_done") =>
             LET id == response'.laundry_id
                 owner == LAUNDRY_STORAGE[id].user_id
             IN \/ StoresUnchanged
                \/ /\ id \in DOMAIN LAUNDRY_STORAGE
                   /\ LAUNDRY_STORAGE[id].status /= STATUS_DONE
                   /\ LAUNDRY_STORAGE'[id].status = STATUS_DONE
                   /\ owner \in DOMAIN USER_STORAGE
                   /\ Contains(USER_STORAGE[owner].active_orders, id)
                   /\ ~Contains(USER_STORAGE'[owner].active_orders, id)
                   /\ USER_STORAGE'[owner].completed_orders =
                         Append(USER_STORAGE[owner].completed_orders, id)
       /\ DoneIsCompleted(USER_STORAGE', LAUNDRY_STORAGE')]_vars

====
